---- MODULE Spec2Model ----
(***************************************************************************)
(* A model of process.py of jkbms-merger: the timestamp extractor          *)
(* (parse_timestamp_from_filename), the sequence grouper                   *)
(* (find_continuous_sequences) and the orchestrator (process_excel_files,  *)
(* the definition at lines 296-376, which replaces the one at 161-236      *)
(* when the module is loaded).                                             *)
(*                                                                         *)
(* A filename is a tuple of one-character strings.  A datetime is a record *)
(* of its six fields.  A timedelta is kept as a pair (days, seconds), as   *)
(* Python keeps it, and the tolerance is kept in seconds.                  *)
(***************************************************************************)
EXTENDS Integers, Sequences, FiniteSets, TLC

VARIABLES
  files,            \* the list handed to find_continuous_sequences
  max_gap,          \* its tolerance, in seconds
  result,           \* outcome of the call of find_continuous_sequences
  inputDirExists,   \* does the input directory exist
  listing,          \* os.listdir(input_dir), in the order the OS gives it
  outputDirMade,    \* output_dir.mkdir has been called
  pc,               \* position of process_excel_files
  seq_idx,          \* loop index of enumerate(sequences, 1)
  member,           \* position in the inner loop over the sequence
  dfs_to_concat,    \* names of the files whose table was loaded
  written,          \* spreadsheets present in the output directory
  charts,           \* sequence indexes whose charts were saved
  log               \* calls made to loader, writer and renderer, in order

vars == <<files, max_gap, result, inputDirExists, listing, outputDirMade,
          pc, seq_idx, member, dfs_to_concat, written, charts, log>>

orchVars == <<inputDirExists, listing, outputDirMade, pc, seq_idx, member,
              dfs_to_concat, written, charts, log>>

-----------------------------------------------------------------------------
(* Bounds *)

MaxFiles == 4

MaxDirFiles == 3

-----------------------------------------------------------------------------
(* Characters and strings *)

Digits == <<"0", "1", "2", "3", "4", "5", "6", "7", "8", "9">>

IsDigit(c) == \E i \in 1..10 : Digits[i] = c

DigitVal(c) == (CHOOSE i \in 1..10 : Digits[i] = c) - 1

\* the characters used by the model's filenames, in code-point order
CodePointOrder ==
  <<"-", ".", "0", "1", "2", "3", "4", "5", "6", "7", "8", "9",
    "a", "b", "e", "k", "l", "n", "o", "s", "t", "x">>

Ord(c) == CHOOSE i \in 1..Len(CodePointOrder) : CodePointOrder[i] = c

\* Python's str.__lt__: lexicographic by code point, a proper prefix is less
StrLess(a, b) ==
  \E i \in 1..Len(b) :
     /\ i - 1 <= Len(a)
     /\ \A j \in 1..(i - 1) : a[j] = b[j]
     /\ \/ i = Len(a) + 1
        \/ i <= Len(a) /\ Ord(a[i]) < Ord(b[i])

EndsWith(f, suffix) ==
  /\ Len(f) >= Len(suffix)
  /\ \A i \in 1..Len(suffix) : f[Len(f) - Len(suffix) + i] = suffix[i]

\* k is the position of the last digit of the index of a name that starts
\* with 14 digits, a hyphen, a run of digits f[16..k] and then ".xls"
IndexEndsAt(f, k) ==
  /\ k >= 16
  /\ Len(f) >= k + 4
  /\ \A i \in 1..14 : IsDigit(f[i])
  /\ f[15] = "-"
  /\ \A i \in 16..k : IsDigit(f[i])
  /\ f[k + 1] = "." /\ f[k + 2] = "x" /\ f[k + 3] = "l" /\ f[k + 4] = "s"

\* re.match(r'(\d{14})-\d+\.xlsx?', f): anchored at the start only
ReMatch(f) == \E k \in 16..Len(f) : IndexEndsAt(f, k)

-----------------------------------------------------------------------------
(* datetime *)

TwoDigits(f, i) == 10 * DigitVal(f[i]) + DigitVal(f[i + 1])

IsLeap(y) == y % 4 = 0 /\ (y % 100 # 0 \/ y % 400 = 0)

DaysInMonth(y, m) ==
  IF m = 2 THEN (IF IsLeap(y) THEN 29 ELSE 28)
  ELSE IF m \in {4, 6, 9, 11} THEN 30 ELSE 31

\* the fields strptime reads from the 14 digits
Fields(f) ==
  [year   |-> 100 * TwoDigits(f, 1) + TwoDigits(f, 3),
   month  |-> TwoDigits(f, 5),
   day    |-> TwoDigits(f, 7),
   hour   |-> TwoDigits(f, 9),
   minute |-> TwoDigits(f, 11),
   second |-> TwoDigits(f, 13)]

\* datetime.strptime(s, '%Y%m%d%H%M%S') succeeds on 14 digits exactly when
\* every field is in range; otherwise it raises ValueError
ValidDateTime(d) ==
  /\ d.year >= 1
  /\ d.month \in 1..12
  /\ d.day >= 1 /\ d.day <= DaysInMonth(d.year, d.month)
  /\ d.hour \in 0..23
  /\ d.minute \in 0..59
  /\ d.second \in 0..59

RECURSIVE DaysBeforeMonth(_, _)
DaysBeforeMonth(y, m) ==
  IF m = 1 THEN 0 ELSE DaysBeforeMonth(y, m - 1) + DaysInMonth(y, m - 1)

\* datetime.toordinal
ToOrdinal(d) ==
  LET y == d.year - 1
  IN  y * 365 + (y \div 4) - (y \div 100) + (y \div 400)
        + DaysBeforeMonth(d.year, d.month) + d.day

SecondOfDay(d) == d.hour * 3600 + d.minute * 60 + d.second

\* datetime.__sub__: a normalised timedelta (days, seconds), 0 <= seconds < 86400
TimeDiff(a, b) ==
  LET dd == ToOrdinal(a) - ToOrdinal(b)
      ss == SecondOfDay(a) - SecondOfDay(b)
  IN  IF ss < 0 THEN <<dd - 1, ss + 86400>> ELSE <<dd, ss>>

\* datetime.__lt__
DtLess(a, b) ==
  LET t == TimeDiff(a, b) IN t[1] < 0

\* timedelta.__le__ against timedelta(hours=max_gap_hours), gap in seconds
WithinGap(td, gap) ==
  \/ td[1] < gap \div 86400
  \/ td[1] = gap \div 86400 /\ td[2] <= gap % 86400

\* timedelta(hours=1.1) is 1:06:00
DefaultMaxGap == 3960

-----------------------------------------------------------------------------
(* parse_timestamp_from_filename *)

NoTimestamp == [tag |-> "none"]

ValueError == [tag |-> "raise"]

parse_timestamp_from_filename(f) ==
  IF ReMatch(f)
  THEN IF ValidDateTime(Fields(f))
       THEN [tag |-> "ts", ts |-> Fields(f)]
       ELSE ValueError
  ELSE NoTimestamp

-----------------------------------------------------------------------------
(* find_continuous_sequences *)

\* a sort keyed on the instant alone
TupleLessByInstant(a, b) == DtLess(a.ts, b.ts)

\* a sort that breaks ties of the instant by descending name
TupleLessNameDescending(a, b) ==
  \/ DtLess(a.ts, b.ts)
  \/ a.ts = b.ts /\ StrLess(b.f, a.f)

\* tuple comparison (ts, f) < (ts', f') used by list.sort
TupleLess(a, b) ==
  \/ DtLess(a.ts, b.ts)
  \/ a.ts = b.ts /\ StrLess(a.f, b.f)

\* insert x after every element that is not greater than it
RECURSIVE InsertSorted(_, _)
InsertSorted(s, x) ==
  IF s = <<>> THEN <<x>>
  ELSE IF TupleLess(x, s[Len(s)])
       THEN Append(InsertSorted(SubSeq(s, 1, Len(s) - 1), x), s[Len(s)])
       ELSE Append(s, x)

\* list.sort(): stable, ascending
RECURSIVE SortTuples(_)
SortTuples(s) ==
  IF s = <<>> THEN <<>>
  ELSE InsertSorted(SortTuples(SubSeq(s, 1, Len(s) - 1)), s[Len(s)])

\* the loop of lines 248-251; a ValueError of the parser is not caught
Raises(fs) ==
  \E i \in 1..Len(fs) : parse_timestamp_from_filename(fs[i]) = ValueError

RECURSIVE TimestampedFiles(_)
TimestampedFiles(fs) ==
  IF fs = <<>> THEN <<>>
  ELSE LET p == parse_timestamp_from_filename(Head(fs))
       IN  IF p.tag = "ts"
           THEN <<[ts |-> p.ts, f |-> Head(fs)]>> \o TimestampedFiles(Tail(fs))
           ELSE TimestampedFiles(Tail(fs))

\* a test that measures the gap from the first member of the open sequence
SameSequenceFromStart(tf, i, current, gap) ==
  WithinGap(TimeDiff(tf[i].ts, current[1].ts), gap)

\* the test of line 268
SameSequence(tf, i, current, gap) ==
  WithinGap(TimeDiff(tf[i].ts, tf[i - 1].ts), gap)

\* the loop of lines 262-274
RECURSIVE GroupFrom(_, _, _, _, _)
GroupFrom(tf, i, sequences, current, gap) ==
  IF i > Len(tf) THEN Append(sequences, current)
  ELSE IF SameSequence(tf, i, current, gap)
       THEN GroupFrom(tf, i + 1, sequences, Append(current, tf[i]), gap)
       ELSE GroupFrom(tf, i + 1, Append(sequences, current), <<tf[i]>>, gap)

Returned(seqs) == [kind |-> "returned", seqs |-> seqs]

Raised == [kind |-> "raised", seqs |-> <<>>]

Pending == [kind |-> "pending", seqs |-> <<>>]

find_continuous_sequences(fs, gap) ==
  IF fs = <<>> THEN Returned(<<>>)
  ELSE IF Raises(fs) THEN Raised
  ELSE LET tf == SortTuples(TimestampedFiles(fs))
       IN  IF tf = <<>> THEN Returned(<<>>)
           ELSE Returned(GroupFrom(tf, 2, <<>>, <<tf[1]>>, gap))

-----------------------------------------------------------------------------
(* Filenames of the model *)

Xlsx == <<".", "x", "l", "s", "x">>

Xls == <<".", "x", "l", "s">>

\* 2023-12-31 23:00:00
F2300 == <<"2","0","2","3","1","2","3","1","2","3","0","0","0","0","-","0","0">> \o Xlsx

\* 2024-01-01 00:00:00, one hour later
F0000 == <<"2","0","2","4","0","1","0","1","0","0","0","0","0","0","-","0","0">> \o Xlsx

\* the same instant, another index and extension
F0000b == <<"2","0","2","4","0","1","0","1","0","0","0","0","0","0","-","0","1">> \o Xls

\* 2024-01-01 01:06:00, 3960 seconds after F0000
F0106 == <<"2","0","2","4","0","1","0","1","0","1","0","6","0","0","-","0","0">> \o Xlsx

\* 2024-01-01 02:12:01, 3961 seconds after F0106
F0212 == <<"2","0","2","4","0","1","0","1","0","2","1","2","0","1","-","0","0">> \o Xlsx

\* 2024-01-01 05:00:00
F0500 == <<"2","0","2","4","0","1","0","1","0","5","0","0","0","0","-","7">> \o Xls

\* month 13
FMonth13 == <<"2","0","2","4","1","3","0","1","0","0","0","0","0","0","-","0","0">> \o Xlsx

\* 2024-01-01 00:30:00 with characters after the extension
FBak == <<"2","0","2","4","0","1","0","1","0","0","3","0","0","0","-","0","0">> \o Xlsx
           \o <<".", "b", "a", "k">>

\* 2024-01-01 03:00:00 with a second extension
FXlsxXls == <<"2","0","2","4","0","1","0","1","0","3","0","0","0","0","-","0","0">> \o Xlsx
              \o Xls

FNotes == <<"n", "o", "t", "e", "s">> \o Xlsx

\* names offered to find_continuous_sequences, in a fixed reference order
GrouperPool == <<F2300, F0000, F0000b, F0106, F0212, FMonth13, FBak, FNotes>>

\* names a directory may hold, in a fixed reference order
DirPool == <<F2300, F0000, F0212, F0500, FMonth13, FXlsxXls, FNotes>>

GapChoices == {3600, DefaultMaxGap}

Range(s) == {s[i] : i \in 1..Len(s)}

\* lists of distinct names of the pool, of length 0..n
DistinctLists(pool, n) ==
  {s \in UNION {[1..k -> Range(pool)] : k \in 0..n} :
      \A i, j \in 1..Len(s) : i # j => s[i] # s[j]}

-----------------------------------------------------------------------------
(* The grouper called on its own *)

OrchIdle ==
  /\ inputDirExists = TRUE
  /\ listing = <<>>
  /\ outputDirMade = FALSE
  /\ pc = "idle"
  /\ seq_idx = 0
  /\ member = 0
  /\ dfs_to_concat = <<>>
  /\ written = {}
  /\ charts = {}
  /\ log = <<>>

InitGrouper ==
  /\ files \in DistinctLists(GrouperPool, MaxFiles)
  /\ max_gap \in GapChoices
  /\ result = Pending
  /\ OrchIdle

CallGrouper ==
  /\ result = Pending
  /\ result' = find_continuous_sequences(files, max_gap)
  /\ UNCHANGED <<files, max_gap>>
  /\ UNCHANGED orchVars

NextGrouper == CallGrouper

SpecGrouper == InitGrouper /\ [][NextGrouper]_vars

-----------------------------------------------------------------------------
(* process_excel_files *)

\* the directory filter of lines 315-317
IsExcelFile(f) == (EndsWith(f, Xlsx) \/ EndsWith(f, Xls)) /\ ReMatch(f)

TwoChars(n) == <<Digits[(n \div 10) + 1], Digits[(n % 10) + 1]>>

\* strftime('%Y%m%d%H%M%S') for a four-digit year
Strftime(d) ==
  TwoChars(d.year \div 100) \o TwoChars(d.year % 100) \o TwoChars(d.month)
    \o TwoChars(d.day) \o TwoChars(d.hour) \o TwoChars(d.minute)
    \o TwoChars(d.second)

\* sequence_{seq_idx}_{start}_to_{end}.xlsx
output_filename(idx, sequence) ==
  [index |-> idx,
   start |-> Strftime(sequence[1].ts),
   end   |-> Strftime(sequence[Len(sequence)].ts)]

\* what the renderer looks at in the combined table
Tables ==
  [has_time : BOOLEAN, voltage : {"none", "invalid", "valid"}, savable : BOOLEAN]

\* create_voltage_plots: "raise", "return" (nothing saved) or "saved"
create_voltage_plots(df) ==
  IF ~df.has_time THEN "raise"
  ELSE IF df.voltage = "none" THEN "return"
  ELSE IF df.voltage = "invalid" THEN "return"
  ELSE IF ~df.savable THEN "raise"
  ELSE "saved"

Event(op, idx, file, ok) == [op |-> op, seq |-> idx, file |-> file, ok |-> ok]

\* a loop without the test of line 351
NothingLoadedIgnored(dfs) == FALSE

\* the test of line 351
NothingLoaded(dfs) == dfs = <<>>

\* a renderer called whatever the writer returned
RenderAfterWriteAlways(ok) == TRUE

\* the test of line 363: the renderer is called when the writer returned True
RenderAfterWrite(ok) == ok

InitOrch ==
  /\ files = <<>>
  /\ max_gap = DefaultMaxGap
  /\ result = Pending
  /\ inputDirExists \in BOOLEAN
  /\ listing \in DistinctLists(DirPool, MaxDirFiles)
  /\ (~inputDirExists => listing = <<>>)
  /\ outputDirMade = FALSE
  /\ pc = "start"
  /\ seq_idx = 0
  /\ member = 0
  /\ dfs_to_concat = <<>>
  /\ written = {}
  /\ charts = {}
  /\ log = <<>>

\* the end of one iteration of the loop of line 335
NextSequence ==
  IF seq_idx = Len(result.seqs)
  THEN /\ pc' = "done"
       /\ UNCHANGED <<seq_idx, member, dfs_to_concat>>
  ELSE /\ pc' = "read"
       /\ seq_idx' = seq_idx + 1
       /\ member' = 1
       /\ dfs_to_concat' = <<>>

\* lines 311-333: list, filter, group
ScanAndGroup ==
  /\ files' = SelectSeq(listing, IsExcelFile)
  /\ IF files' = <<>>
     THEN /\ pc' = "done"
          /\ UNCHANGED <<result, seq_idx, member, dfs_to_concat>>
     ELSE /\ result' = find_continuous_sequences(files', max_gap)
          /\ IF result'.kind = "raised"
             THEN /\ pc' = "raised"
                  /\ UNCHANGED <<seq_idx, member, dfs_to_concat>>
             ELSE IF result'.seqs = <<>>
             THEN /\ pc' = "done"
                  /\ UNCHANGED <<seq_idx, member, dfs_to_concat>>
             ELSE /\ pc' = "read"
                  /\ seq_idx' = 1
                  /\ member' = 1
                  /\ dfs_to_concat' = <<>>

\* the order of the definition at lines 161-171: create the output directory,
\* then raise FileNotFoundError when the input directory is missing
BeginMkdirFirst ==
  /\ pc = "start"
  /\ UNCHANGED <<max_gap, inputDirExists, listing, written, charts, log>>
  /\ outputDirMade' = TRUE
  /\ IF ~inputDirExists
     THEN /\ pc' = "raised"
          /\ UNCHANGED <<files, result, seq_idx, member, dfs_to_concat>>
     ELSE ScanAndGroup

\* lines 298-333
Begin ==
  /\ pc = "start"
  /\ UNCHANGED <<max_gap, inputDirExists, listing, written, charts, log>>
  /\ IF ~inputDirExists
     THEN /\ pc' = "done"
          /\ UNCHANGED <<files, result, outputDirMade, seq_idx, member,
                         dfs_to_concat>>
     ELSE /\ outputDirMade' = TRUE
          /\ ScanAndGroup

\* lines 344-349: safe_read_excel returns a table or None
ReadFile ==
  /\ pc = "read"
  /\ \E ok \in BOOLEAN :
       LET f == result.seqs[seq_idx][member].f
       IN  /\ log' = Append(log, Event("read", seq_idx, f, ok))
           /\ dfs_to_concat' =
                IF ok THEN Append(dfs_to_concat, f) ELSE dfs_to_concat
  /\ IF member = Len(result.seqs[seq_idx])
     THEN pc' = "loaded" /\ UNCHANGED member
     ELSE pc' = "read" /\ member' = member + 1
  /\ UNCHANGED <<files, max_gap, result, inputDirExists, listing,
                 outputDirMade, seq_idx, written, charts>>

\* lines 351-353
SkipSequence ==
  /\ pc = "loaded"
  /\ NothingLoaded(dfs_to_concat)
  /\ log' = Append(log, Event("skip", seq_idx, <<>>, FALSE))
  /\ NextSequence
  /\ UNCHANGED <<files, max_gap, result, inputDirExists, listing,
                 outputDirMade, written, charts>>

\* lines 356-372, up to the call of the renderer
WriteSequence ==
  /\ pc = "loaded"
  /\ ~NothingLoaded(dfs_to_concat)
  /\ \E ok \in BOOLEAN :
       /\ log' = Append(log, Event("write", seq_idx, <<>>, ok))
       /\ written' =
            IF ok
            THEN written \cup {output_filename(seq_idx, result.seqs[seq_idx])}
            ELSE written
       /\ IF RenderAfterWrite(ok)
          THEN pc' = "render" /\ UNCHANGED <<seq_idx, member, dfs_to_concat>>
          ELSE NextSequence
  /\ UNCHANGED <<files, max_gap, result, inputDirExists, listing,
                 outputDirMade, charts>>

\* line 370 and create_voltage_plots; its exception is re-raised at 159 and
\* again at 374-376
RenderSequence ==
  /\ pc = "render"
  /\ \E df \in Tables :
       LET out == create_voltage_plots(df)
       IN  /\ log' = Append(log, Event("render", seq_idx, <<>>, out # "raise"))
           /\ charts' = IF out = "saved" THEN charts \cup {seq_idx} ELSE charts
           /\ IF out = "raise"
              THEN pc' = "raised" /\ UNCHANGED <<seq_idx, member, dfs_to_concat>>
              ELSE NextSequence
  /\ UNCHANGED <<files, max_gap, result, inputDirExists, listing,
                 outputDirMade, written>>

Next ==
  \/ Begin
  \/ ReadFile
  \/ SkipSequence
  \/ WriteSequence
  \/ RenderSequence

Spec == InitOrch /\ [][Next]_vars

-----------------------------------------------------------------------------
(* Vocabulary of the properties *)

Seqs == result.seqs

\* the places (sequence, position) of the grouper's output
Slots == UNION {{<<k, j>> : j \in 1..Len(Seqs[k])} : k \in 1..Len(Seqs)}

SlotsOf(f) == {kj \in Slots : Seqs[kj[1]][kj[2]].f = f}

Parseable(f) == parse_timestamp_from_filename(f).tag = "ts"

\* the whole name matches ^\d{14}-\d+\.xlsx?$
WholeNameMatches(f) ==
  \E k \in 16..Len(f) :
     /\ IndexEndsAt(f, k)
     /\ \/ Len(f) = k + 4
        \/ Len(f) = k + 5 /\ f[k + 5] = "x"

\* the signed gap b - a is larger than the tolerance
GapExceeds(a, b) == ~WithinGap(TimeDiff(b, a), max_gap)

\* the names of a set, in the reference order of the pool
InPoolOrder(S) == SelectSeq(GrouperPool, LAMBDA f : f \in S)

Called == result # Pending

-----------------------------------------------------------------------------
(* Properties of find_continuous_sequences, under SpecGrouper *)

\* C1: for a non-empty input the returned sequences partition the files whose
\* timestamp parses: each is in exactly one place, no sequence is empty, no
\* other file appears, and the lengths add up to the number of such files.
C1_Partition ==
  (Called /\ files # <<>>) =>
     /\ \A i \in 1..Len(files) :
          Parseable(files[i]) => Cardinality(SlotsOf(files[i])) = 1
     /\ \A k \in 1..Len(Seqs) : Seqs[k] # <<>>
     /\ \A kj \in Slots :
          /\ Seqs[kj[1]][kj[2]].f \in Range(files)
          /\ Parseable(Seqs[kj[1]][kj[2]].f)
     /\ Cardinality(Slots) = Cardinality({i \in 1..Len(files) : Parseable(files[i])})

\* C2: neighbours in a sequence are at most max_gap apart, the first member
\* of a sequence is more than max_gap after the last member of the sequence
\* before it, and first members ascend.
C2_GapRule ==
  result.kind = "returned" =>
     /\ \A kj \in Slots :
          kj[2] > 1 =>
            /\ ~DtLess(Seqs[kj[1]][kj[2]].ts, Seqs[kj[1]][kj[2] - 1].ts)
            /\ ~GapExceeds(Seqs[kj[1]][kj[2] - 1].ts, Seqs[kj[1]][kj[2]].ts)
     /\ \A k \in 2..Len(Seqs) :
          /\ GapExceeds(Seqs[k - 1][Len(Seqs[k - 1])].ts, Seqs[k][1].ts)
          /\ DtLess(Seqs[k - 1][1].ts, Seqs[k][1].ts)

\* a sequence of three whose ends are further apart than the tolerance,
\* followed by another sequence
C2_Witness ==
  /\ result.kind = "returned"
  /\ Len(Seqs) >= 2
  /\ Len(Seqs[1]) >= 3
  /\ GapExceeds(Seqs[1][1].ts, Seqs[1][Len(Seqs[1])].ts)

\* C3: every ordering of the same set of names gives the result that the
\* reference ordering of that set gives.
C3_PermutationInvariant ==
  Called =>
    result = find_continuous_sequences(InPoolOrder(Range(files)), max_gap)

\* two files of one instant, handed over against the reference order
C3_Witness ==
  /\ result.kind = "returned"
  /\ files # InPoolOrder(Range(files))
  /\ \E i, j \in 1..Len(files) : i < j /\ files[i] = F0000b /\ files[j] = F0000
  /\ Len(Seqs) >= 1

\* C4 as stated: files of one instant keep their input order in the output.
C4_InputOrderKept ==
  result.kind = "returned" =>
    \A i, j \in 1..Len(files) :
       ( /\ i < j
         /\ Parseable(files[i]) /\ Parseable(files[j])
         /\ parse_timestamp_from_filename(files[i]).ts
              = parse_timestamp_from_filename(files[j]).ts )
       => \E a \in SlotsOf(files[i]), b \in SlotsOf(files[j]) :
            a[1] < b[1] \/ (a[1] = b[1] /\ a[2] < b[2])

\* C4 amended: files of one instant are in one sequence in ascending order of
\* their names, whatever their input order.
C4_NameOrder ==
  result.kind = "returned" =>
    \A a, b \in Slots :
       ( /\ a # b
         /\ Seqs[a[1]][a[2]].ts = Seqs[b[1]][b[2]].ts
         /\ StrLess(Seqs[a[1]][a[2]].f, Seqs[b[1]][b[2]].f) )
       => a[1] = b[1] /\ a[2] < b[2]

\* the later name came first in the input and comes second in the output
C4_Witness ==
  /\ result.kind = "returned"
  /\ \E i, j \in 1..Len(files) : i < j /\ files[i] = F0000b /\ files[j] = F0000
  /\ \E a \in SlotsOf(F0000), b \in SlotsOf(F0000b) : a[1] = b[1] /\ a[2] < b[2]

\* C10: a name has an instant exactly when the whole name matches the pattern
\* (and its digits are a date); a name that does not match is never grouped.
C10_WholeNameOnly ==
  Called =>
    \A i \in 1..Len(files) :
       /\ (WholeNameMatches(files[i]) /\ ValidDateTime(Fields(files[i])))
            => Parseable(files[i])
       /\ ~WholeNameMatches(files[i]) =>
            /\ parse_timestamp_from_filename(files[i]) = NoTimestamp
            /\ SlotsOf(files[i]) = {}

-----------------------------------------------------------------------------
(* Properties of process_excel_files, under Spec *)

Malformed(f) == WholeNameMatches(f) /\ ~ValidDateTime(Fields(f))

Events == 1..Len(log)

\* event p is a call of kind op for sequence k
Is(p, op, k) == log[p].op = op /\ log[p].seq = k

\* C5: a directory holding a file whose 14 digits are not a date is processed
\* without raising; that file is left out and the dated files are grouped.
C5_MalformedSkipped ==
  (pc # "start" /\ \E i \in 1..Len(listing) : Malformed(listing[i])) =>
     /\ pc # "raised"
     /\ result.kind = "returned"
     /\ \A i \in 1..Len(listing) :
          IF Malformed(listing[i])
          THEN SlotsOf(listing[i]) = {}
          ELSE IsExcelFile(listing[i]) => SlotsOf(listing[i]) # {}

\* C6: after a failure of the renderer the run has not raised, the written
\* spreadsheet of that sequence is kept and the loop has gone on.
C6_RenderFailureLocal ==
  \A p \in Events :
     (log[p].op = "render" /\ ~log[p].ok) =>
        /\ pc # "raised"
        /\ \E w \in written : w.index = log[p].seq
        /\ IF log[p].seq < Len(Seqs) THEN seq_idx > log[p].seq ELSE pc = "done"

\* C7: with no input directory the run ends without raising, having made no
\* output directory, listed and loaded nothing, and written nothing.
C7_MissingInputDir ==
  (~inputDirExists /\ pc # "start") =>
     /\ pc = "done"
     /\ ~outputDirMade
     /\ files = <<>>
     /\ result = Pending
     /\ log = <<>>
     /\ written = {}
     /\ charts = {}

C7_Witness == ~inputDirExists /\ pc = "done"

\* C8: the writer is called at most once for a sequence and after a load of
\* every member; it and the renderer are called only after a load that
\* succeeded; a sequence with no load that succeeded is skipped, leaves no
\* output, and the loop goes on to the next sequence without raising.
C8_WriteAfterLoads ==
  \A p \in Events :
     /\ log[p].op = "write" =>
          /\ \A q \in Events : Is(q, "write", log[p].seq) => q = p
          /\ \A j \in 1..Len(Seqs[log[p].seq]) :
               \E q \in 1..(p - 1) :
                  Is(q, "read", log[p].seq) /\ log[q].file = Seqs[log[p].seq][j].f
     /\ log[p].op \in {"write", "render"} =>
          \E q \in 1..(p - 1) : Is(q, "read", log[p].seq) /\ log[q].ok
     /\ log[p].op = "skip" =>
          /\ \A q \in Events : ~Is(q, "write", log[p].seq) /\ ~Is(q, "render", log[p].seq)
          /\ \A w \in written : w.index # log[p].seq
          /\ log[p].seq \notin charts
          /\ p = Len(log) => pc \in {"read", "done"}
          /\ IF log[p].seq < Len(Seqs) THEN seq_idx > log[p].seq ELSE pc = "done"

\* the first sequence had no load that succeeded, the second was written
C8_Witness ==
  /\ \E p \in Events : Is(p, "skip", 1)
  /\ \A p \in Events : Is(p, "read", 1) => ~log[p].ok
  /\ \E p \in Events : Is(p, "write", 2) /\ log[p].ok

\* C9: the renderer is called for a sequence only after its write succeeded;
\* a failed write leaves no chart, does not raise, and the loop goes on to the
\* next sequence; every call carries the 1-based position of its sequence in
\* the grouper's output.
C9_WriteFailureLocal ==
  /\ \A p \in Events :
       /\ log[p].op = "render" =>
            \E q \in 1..(p - 1) : Is(q, "write", log[p].seq) /\ log[q].ok
       /\ (log[p].op = "write" /\ ~log[p].ok) =>
            /\ \A q \in Events : ~Is(q, "render", log[p].seq)
            /\ log[p].seq \notin charts
            /\ \A w \in written : w.index # log[p].seq
            /\ p = Len(log) => pc \in {"read", "done"}
            /\ IF log[p].seq < Len(Seqs) THEN seq_idx > log[p].seq ELSE pc = "done"
       /\ log[p].seq \in 1..Len(Seqs)
       /\ log[p].op = "read" =>
            \E j \in 1..Len(Seqs[log[p].seq]) : Seqs[log[p].seq][j].f = log[p].file
       /\ p > 1 => log[p].seq \in {log[p - 1].seq, log[p - 1].seq + 1}
  /\ \A w \in written :
       /\ w.index \in 1..Len(Seqs)
       /\ w.start = SubSeq(Seqs[w.index][1].f, 1, 14)
       /\ w.end = SubSeq(Seqs[w.index][Len(Seqs[w.index])].f, 1, 14)

\* the write of the first sequence failed, the second sequence was loaded,
\* written under index 2 and rendered
C9_Witness ==
  /\ \E p \in Events : Is(p, "write", 1) /\ ~log[p].ok
  /\ \E p \in Events : Is(p, "read", 2)
  /\ \E p \in Events : Is(p, "write", 2) /\ log[p].ok
  /\ \E p \in Events : Is(p, "render", 2)
  /\ \E w \in written : w.index = 2

====
